---- MODULE Spec2Model ----
(***************************************************************************)
(* Model of board_papers.py: the page-range extractor, the agenda section  *)
(* locator, the per-document extraction planner and the character-budgeted *)
(* prompt assembly, with the tail of the run() pipeline around them.       *)
(*                                                                         *)
(* A Python str is modelled as a sequence of runs [c |-> fragment,         *)
(* n |-> repetitions]: the fragment c is a literal piece of text (one      *)
(* character, or a whole keyword / file label) and the run stands for c    *)
(* repeated n times.  len(), slicing, strip(), lower(), upper(), replace() *)
(* and the regular expressions are computed on that representation.        *)
(***************************************************************************)
EXTENDS Integers, Sequences, FiniteSets, TLC

VARIABLES
    pc,               \* where the run is
    args, ret,        \* arguments and result of a single function call
    fs,               \* the files on disk: path -> document, or Corrupt
    pdf_paths,        \* run(): the list handed to extract_targeted_text
    idx,              \* extract_targeted_text: documents done so far
    all_sections,     \* extract_targeted_text: the dict, in insertion order
    combined_text,    \* analyse_with_claude: "".join(parts)
    template_exists,  \* whether prompt_template.txt is there
    prompt,           \* analyse_with_claude: what load_prompt returned
    request_sent,     \* whether client.messages.create was called
    leads_written     \* whether run() wrote the _leads.md file

vars == <<pc, args, ret, fs, pdf_paths, idx, all_sections, combined_text,
          template_exists, prompt, request_sent, leads_written>>

call_vars == <<args, ret>>

pipeline_vars == <<fs, pdf_paths, idx, all_sections, combined_text,
                   template_exists, prompt, request_sent, leads_written>>

(***************************** program constants **************************)

CHARS_PER_PAGE == 3000

CHAR_LIMIT == 400000

AgendaPages == 6

MinPageRef == 3

SectionWindow == 30

MinChunk == 20

Thirds == 3

MaxGap == 60

MaxDigits == 3

(********************************* strings *********************************)

Min(a, b) == IF a < b THEN a ELSE b

Max(a, b) == IF a > b THEN a ELSE b

Run(c, n) == [c |-> c, n |-> n]

Ch(c) == <<Run(c, 1)>>

NL == "\n"

DigitChars == <<"0", "1", "2", "3", "4", "5", "6", "7", "8", "9">>

IsDigit(c) == \E d \in 1..10 : DigitChars[d] = c

DigitVal(c) == (CHOOSE d \in 1..10 : DigitChars[d] = c) - 1

IsSpace(c) == c \in {" ", NL}

NonWordChars == {" ", NL, ".", "-", "=", ":"}

\* \w : every fragment of the model that is not punctuation or white space
\* begins and ends with a letter, a digit or an underscore.
IsWord(c) == c \notin NonWordChars

\* len(s)
RECURSIVE StrLen(_)
StrLen(s) == IF s = <<>> THEN 0 ELSE Len(s[1].c) * s[1].n + StrLen(Tail(s))

\* s[:k].  A multi-character fragment cut in the middle leaves letters that
\* are no longer the keyword.
RECURSIVE Slice(_, _)
Slice(s, k) ==
    IF s = <<>> \/ k <= 0 THEN <<>>
    ELSE LET w == Len(s[1].c) * s[1].n IN
         IF w <= k THEN <<s[1]>> \o Slice(Tail(s), k - w)
         ELSE IF Len(s[1].c) = 1 THEN <<Run(s[1].c, k)>>
         ELSE <<Run("x", k)>>

\* bool(s.strip()) : some character of s is not white space
NonBlank(s) == \E k \in 1..Len(s) : ~IsSpace(s[k].c)

\* str(n) for n >= 0
RECURSIVE Decimal(_)
Decimal(n) == IF n < 10 THEN Ch(DigitChars[n + 1])
              ELSE Decimal(n \div 10) \o Ch(DigitChars[(n % 10) + 1])

\* sep.join(parts)
RECURSIVE Join(_, _)
Join(sep, parts) ==
    IF parts = <<>> THEN <<>>
    ELSE IF Len(parts) = 1 THEN parts[1]
    ELSE parts[1] \o sep \o Join(sep, Tail(parts))

(****************************** extract_pages ******************************)

\* A page of an opened document: fails means get_textpage()/get_text_range()
\* raises for it, text is what get_text_range() returns otherwise.
Page(fails, text) == [fails |-> fails, text |-> text]

\* pdf[i] for a 0-indexed i; pdfium raises for an index that is no page.
PageAt(pdf, i) == IF i >= 0 /\ i < Len(pdf) THEN pdf[i + 1] ELSE Page(TRUE, <<>>)

\* f"-- Page {i + 1} --\n{text[:CHARS_PER_PAGE]}"
PagePart(i, text) ==
    <<Run("-", 2)>> \o Ch(" ") \o Ch("Page") \o Ch(" ") \o Decimal(i + 1)
        \o Ch(" ") \o <<Run("-", 2)>> \o Ch(NL) \o Slice(text, CHARS_PER_PAGE)

PageRange_NoClamp(pdf, start, end) == start..(end - 1)

\* range(start, min(end, len(pdf)))
PageRange(pdf, start, end) == start..(Min(end, Len(pdf)) - 1)

PageBody_Raise(pdf, i) ==
    LET pg == PageAt(pdf, i) IN
    IF pg.fails THEN [parts |-> <<>>, raised |-> TRUE]
    ELSE IF NonBlank(pg.text)
         THEN [parts |-> <<PagePart(i, pg.text)>>, raised |-> FALSE]
         ELSE [parts |-> <<>>, raised |-> FALSE]

\* The body of the loop: the try block and its except clause.
PageBody(pdf, i) ==
    LET pg == PageAt(pdf, i) IN
    IF pg.fails THEN [parts |-> <<>>, raised |-> FALSE]
    ELSE IF NonBlank(pg.text)
         THEN [parts |-> <<PagePart(i, pg.text)>>, raised |-> FALSE]
         ELSE [parts |-> <<>>, raised |-> FALSE]

\* The for loop from page i on, over the pages of rng, in ascending order.
RECURSIVE PageLoop(_, _, _, _)
PageLoop(pdf, rng, i, acc) ==
    IF \A j \in rng : j < i THEN acc
    ELSE IF i \notin rng THEN PageLoop(pdf, rng, i + 1, acc)
    ELSE LET b == PageBody(pdf, i) IN
         IF b.raised THEN [acc EXCEPT !.raised = TRUE, !.accessed = @ \cup {i}]
         ELSE PageLoop(pdf, rng, i + 1,
                       [acc EXCEPT !.parts = @ \o b.parts,
                                   !.accessed = @ \cup {i}])

\* The whole call, with what it read: parts is the list before the join,
\* accessed the page indices handed to pdf[i], raised whether an exception
\* left the function.
extract_pages_run(pdf, start, end) ==
    LET r == PageLoop(pdf, PageRange(pdf, start, end), start,
                      [parts |-> <<>>, accessed |-> {}, raised |-> FALSE])
    IN [text |-> Join(Ch(NL), r.parts), parts |-> r.parts,
        accessed |-> r.accessed, raised |-> r.raised]

extract_pages(pdf, start, end) == extract_pages_run(pdf, start, end).text

(**************************** find_section_starts **************************)

\* The keyword alternatives of each pattern, in the order of the patterns
\* dict.  A keyword is one fragment of the text.
Topics == <<"ceo_report", "finance", "performance", "quality", "workforce">>

Keywords(name) ==
    CASE name = "ceo_report"  -> {"chief executive"}
      [] name = "finance"     -> {"finance report"}
      [] name = "performance" -> {"integrated performance", "ipr", "performance report"}
      [] name = "quality"     -> {"quality"}
      [] name = "workforce"   -> {"people committee", "workforce"}

\* str.lower() on one fragment
LowerFrag(c) ==
    CASE c = "X" -> "x"
      [] c = "Finance Report" -> "finance report"
      [] c = "Quality" -> "quality"
      [] c = "Page" -> "page"
      [] OTHER -> c

Lower(s) == [k \in 1..Len(s) |-> Run(LowerFrag(s[k].c), s[k].n)]

\* int(match.group(1)) for the digits s[j..j+k-1]
RECURSIVE DigitsToInt(_, _, _)
DigitsToInt(s, j, k) ==
    IF k = 0 THEN 0
    ELSE 10 * DigitsToInt(s, j, k - 1) + DigitVal(s[j + k - 1].c)

\* (\d{1,3})\b at fragment j: the digit counts k for which the group matches
DigitGroups(s, j) ==
    {k \in 1..MaxDigits :
        /\ j + k - 1 <= Len(s)
        /\ \A m \in j..(j + k - 1) : IsDigit(s[m].c) /\ s[m].n = 1
        /\ (j + k > Len(s) \/ ~IsWord(s[j + k].c))}

\* [^\n]{0,60}? between the keyword at p and the digits at j
GapOk(s, p, j) ==
    /\ \A m \in (p + 1)..(j - 1) : s[m].c # NL
    /\ StrLen(SubSeq(s, p + 1, j - 1)) <= MaxGap

\* The places j where the pattern anchored at keyword p can put its group
GroupStarts(s, p) ==
    {j \in (p + 1)..Len(s) : GapOk(s, p, j) /\ DigitGroups(s, j) # {}}

MaxOf(S) == CHOOSE x \in S : \A y \in S : y <= x

MinOf(S) == CHOOSE x \in S : \A y \in S : x <= y

\* The keyword positions at which the whole pattern matches
MatchStarts(name, s) ==
    {p \in 1..Len(s) :
        s[p].c \in Keywords(name) /\ s[p].n = 1 /\ GroupStarts(s, p) # {}}

PageNumAt(s, p) ==
    LET j == MinOf(GroupStarts(s, p))      \* lazy gap: the shortest first
        k == MaxOf(DigitGroups(s, j))      \* greedy digits: the longest first
    IN DigitsToInt(s, j, k)

FirstMatch_Last(name, s) ==
    LET ps == MatchStarts(name, s) IN
    IF ps = {} THEN [found |-> FALSE, at |-> 0, page_num |-> 0]
    ELSE [found |-> TRUE, at |-> MaxOf(ps), page_num |-> PageNumAt(s, MaxOf(ps))]

\* re.search(pattern, s): the leftmost match
FirstMatch(name, s) ==
    LET ps == MatchStarts(name, s) IN
    IF ps = {} THEN [found |-> FALSE, at |-> 0, page_num |-> 0]
    ELSE [found |-> TRUE, at |-> MinOf(ps), page_num |-> PageNumAt(s, MinOf(ps))]

Accept_Clamp(m, total_pages) ==
    IF m.found /\ total_pages >= MinPageRef
    THEN <<Max(MinPageRef, Min(m.page_num, total_pages)) - 1>>
    ELSE <<>>

\* if match: page_num = int(...); if 3 <= page_num <= total_pages: keep
\* page_num - 1.  The result is <<start>> or <<>>.
Accept(m, total_pages) ==
    IF m.found /\ MinPageRef <= m.page_num /\ m.page_num <= total_pages
    THEN <<m.page_num - 1>>
    ELSE <<>>

\* The loop over patterns.items(): the sections dict, as the sequence of
\* its items in insertion order.
RECURSIVE SectionLoop(_, _, _)
SectionLoop(s, total_pages, t) ==
    IF t > Len(Topics) THEN <<>>
    ELSE LET a == Accept(FirstMatch(Topics[t], s), total_pages) IN
         (IF a = <<>> THEN <<>> ELSE <<[name |-> Topics[t], start |-> a[1]]>>)
             \o SectionLoop(s, total_pages, t + 1)

find_section_starts(agenda_text, total_pages) ==
    SectionLoop(Lower(agenda_text), total_pages, 1)

(*************************** extract_targeted_text *************************)

\* f"{label}__{section_name}": label and section name determine the key and
\* the key determines both, so the key is kept as the pair.
Key(label, section) == [label |-> label, section |-> section]

\* The characters of a section name, underscores apart
NameStr(section) ==
    CASE section = "agenda"      -> Ch("agenda")
      [] section = "ceo_report"  -> Ch("ceo") \o Ch("_") \o Ch("report")
      [] section = "finance"     -> Ch("finance")
      [] section = "performance" -> Ch("performance")
      [] section = "quality"     -> Ch("quality")
      [] section = "workforce"   -> Ch("workforce")
      [] section = "part_1"      -> Ch("part") \o Ch("_") \o Ch("1")
      [] section = "part_2"      -> Ch("part") \o Ch("_") \o Ch("2")
      [] section = "part_3"      -> Ch("part") \o Ch("_") \o Ch("3")

KeyStr(key) == Ch(key.label) \o <<Run("_", 2)>> \o NameStr(key.section)

Keys(d) == {d[k].key : k \in 1..Len(d)}

\* d[key] = text on an insertion-ordered dict: a key already there keeps its
\* place and takes the new text, a new key goes last.
DictPut(d, key, text) ==
    IF \E k \in 1..Len(d) : d[k].key = key
    THEN [k \in 1..Len(d) |->
             IF d[k].key = key THEN [key |-> key, text |-> text] ELSE d[k]]
    ELSE Append(d, [key |-> key, text |-> text])

RECURSIVE PutAll(_, _)
PutAll(d, items) ==
    IF items = <<>> THEN d
    ELSE PutAll(DictPut(d, items[1].key, items[1].text), Tail(items))

\* A file on disk: opens says whether pdfium.PdfDocument(path) succeeds,
\* pages is the document it gives.
File(opens, pages) == [opens |-> opens, pages |-> pages]

Corrupt == File(FALSE, <<>>)

\* os.path.basename(pdf_path)
Basename(path) == path.base

\* pdfium.PdfDocument(pdf_path) raises for a file that is no readable PDF
Opens(files, path) == files[path].opens

ThirdsRanges_Equal(total) ==
    LET chunk == Max(MinChunk, total \div Thirds) IN
    <<[section |-> "part_1", start |-> 0,         end |-> chunk],
      [section |-> "part_2", start |-> chunk,     end |-> chunk * 2],
      [section |-> "part_3", start |-> chunk * 2, end |-> chunk * 3]>>

\* chunk = max(20, total // 3) and the three ranges handed to extract_pages
ThirdsRanges(total) ==
    LET chunk == Max(MinChunk, total \div Thirds) IN
    <<[section |-> "part_1", start |-> 0,         end |-> chunk],
      [section |-> "part_2", start |-> chunk,     end |-> chunk * 2],
      [section |-> "part_3", start |-> chunk * 2, end |-> total]>>

\* The else branch: the three extract_pages calls of the fallback
read_in_thirds(pdf) ==
    LET rs == ThirdsRanges(Len(pdf)) IN
    [k \in 1..Len(rs) |->
        [section |-> rs[k].section,
         run |-> extract_pages_run(pdf, rs[k].start, rs[k].end)]]

\* agenda = extract_pages(pdf, 0, min(6, total))
AgendaOf(pdf) == extract_pages(pdf, 0, Min(AgendaPages, Len(pdf)))

SectionsOf(pdf) == find_section_starts(AgendaOf(pdf), Len(pdf))

\* if sections:
UsesSections(pdf) == SectionsOf(pdf) # <<>>

\* The assignments to all_sections one opened document makes, in order
DocWrites(label, pdf) ==
    LET total == Len(pdf)
        secs == SectionsOf(pdf)
        thirds == read_in_thirds(pdf)
    IN <<[key |-> Key(label, "agenda"), text |-> AgendaOf(pdf)]>> \o
       (IF UsesSections(pdf)
        THEN [k \in 1..Len(secs) |->
                 [key |-> Key(label, secs[k].name),
                  text |-> extract_pages(pdf, secs[k].start,
                               Min(secs[k].start + SectionWindow, total))]]
        ELSE [k \in 1..Len(thirds) |->
                 [key |-> Key(label, thirds[k].section),
                  text |-> thirds[k].run.text]])

DocStep_Abort(d, files, path) ==
    IF ~Opens(files, path) THEN [d |-> d, stop |-> TRUE]
    ELSE [d |-> PutAll(d, DocWrites(Basename(path), files[path].pages)), stop |-> FALSE]

\* One iteration of the loop over pdf_paths: d is all_sections before it;
\* stop says whether the loop ends here instead of going on to the next path.
DocStep(d, files, path) ==
    IF ~Opens(files, path) THEN [d |-> d, stop |-> FALSE]        \* continue
    ELSE [d |-> PutAll(d, DocWrites(Basename(path), files[path].pages)), stop |-> FALSE]

(***************************** analyse_with_claude *************************)

\* str.upper() on one fragment
UpperFrag(c) ==
    CASE c = "x.pdf"       -> "X.PDF"
      [] c = "y.pdf"       -> "Y.PDF"
      [] c = "agenda"      -> "AGENDA"
      [] c = "ceo"         -> "CEO"
      [] c = "report"      -> "REPORT"
      [] c = "finance"     -> "FINANCE"
      [] c = "performance" -> "PERFORMANCE"
      [] c = "quality"     -> "QUALITY"
      [] c = "workforce"   -> "WORKFORCE"
      [] c = "part"        -> "PART"
      [] OTHER -> c

Upper(s) == [k \in 1..Len(s) |-> Run(UpperFrag(s[k].c), s[k].n)]

\* s.replace(old, new) for one-fragment old and new
Replace(s, old, new) ==
    [k \in 1..Len(s) |-> IF s[k].c = old THEN Run(new, s[k].n) ELSE s[k]]

\* f"\n\n=== {section.upper().replace('_', ' ')} ===\n"
Header(key) ==
    <<Run(NL, 2), Run("=", 3), Run(" ", 1)>>
        \o Replace(Upper(KeyStr(key)), "_", " ")
        \o <<Run(" ", 1), Run("=", 3), Run(NL, 1)>>

Exceeds_NoHeader(total_chars, header, text, limit) ==
    total_chars + StrLen(text) > limit

\* if total_chars + len(header) + len(text) > CHAR_LIMIT
Exceeds(total_chars, header, text, limit) ==
    total_chars + StrLen(header) + StrLen(text) > limit

\* The loop over extracted.items() from item k on
RECURSIVE AssembleLoop(_, _, _, _, _)
AssembleLoop(d, limit, k, parts, total_chars) ==
    IF k > Len(d) THEN [parts |-> parts, total_chars |-> total_chars]
    ELSE IF ~NonBlank(d[k].text)
         THEN AssembleLoop(d, limit, k + 1, parts, total_chars)   \* continue
    ELSE LET header == Header(d[k].key)
             size == StrLen(header) + StrLen(d[k].text)
         IN IF Exceeds(total_chars, header, d[k].text, limit)
            THEN [parts |-> parts, total_chars |-> total_chars]   \* break
            ELSE AssembleLoop(d, limit, k + 1,
                              Append(parts, header \o d[k].text),
                              total_chars + size)

\* "".join(parts)
combine(d) == Join(<<>>, AssembleLoop(d, CHAR_LIMIT, 1, <<>>, 0).parts)

Template ==
    Ch("{{TRUST_NAME}}") \o Ch(NL) \o Ch("{{BOARD_PAPERS_URL}}") \o Ch(NL)
        \o Ch("{{EXTRACTED_TEXT}}")

\* template.replace(placeholder, value) for a value of several fragments
RECURSIVE Fill(_, _, _)
Fill(s, placeholder, value) ==
    IF s = <<>> THEN <<>>
    ELSE (IF s[1].c = placeholder THEN value ELSE <<s[1]>>)
             \o Fill(Tail(s), placeholder, value)

load_prompt_Default(exists, trust_name, board_papers_url, extracted_text) ==
    IF ~exists THEN [raised |-> FALSE, prompt |-> extracted_text]
    ELSE [raised |-> FALSE,
          prompt |-> Fill(Fill(Fill(Template, "{{TRUST_NAME}}", trust_name),
                               "{{BOARD_PAPERS_URL}}", board_papers_url),
                          "{{EXTRACTED_TEXT}}", extracted_text)]

\* raise FileNotFoundError when the template is missing, else the template
\* with its three placeholders replaced in turn
load_prompt(exists, trust_name, board_papers_url, extracted_text) ==
    IF ~exists THEN [raised |-> TRUE, prompt |-> <<>>]
    ELSE [raised |-> FALSE,
          prompt |-> Fill(Fill(Fill(Template, "{{TRUST_NAME}}", trust_name),
                               "{{BOARD_PAPERS_URL}}", board_papers_url),
                          "{{EXTRACTED_TEXT}}", extracted_text)]

(********************************* bounds **********************************)

MaxPdfLen == 3        \* pages of a document handed to extract_pages alone

LongExtra == 500      \* characters a long page has beyond CHARS_PER_PAGE

MaxAgendaLen == 5     \* fragments of an agenda handed to find_section_starts

MaxTotalPages == 70   \* pages of a document read in thirds

MaxDocs == 2          \* paths in pdf_paths

MaxEntries == 6       \* entries of a corpus handed to analyse_with_claude

SmallSize == 100      \* header + text of a small corpus entry

BigParts == 5         \* large corpus entries that fill CHAR_LIMIT exactly

SeqsUpTo(S, n) == UNION {[1..m -> S] : m \in 0..n}

(******************************* the inputs ********************************)

TextPage == Page(FALSE, Ch("x"))

BlankPage == Page(FALSE, <<Run(" ", 2), Run(NL, 1)>>)

BadPage == Page(TRUE, <<>>)

LongPage == Page(FALSE, <<Run("x", CHARS_PER_PAGE + LongExtra)>>)

PageKinds == {TextPage, BlankPage, BadPage, LongPage}

AgendaAlphabet ==
    {Run("Quality", 1), Run("finance report", 1), Run("2", 1), Run("4", 1),
     Run(NL, 1), Run("x", 1), Run(".", 31)}

AgendaTotals == {0, 4, 50}

\* Finance Report..........3 / Quality 2 : finance on page 3, quality refused
DocTopics ==
    <<Page(FALSE, <<Run("Finance Report", 1), Run(".", 10), Run("3", 1),
                    Run(NL, 1), Run("Quality", 1), Run(" ", 1), Run("2", 1)>>),
      TextPage, TextPage, BadPage>>

\* quality: 3
DocQuality ==
    <<Page(FALSE, <<Run("quality", 1), Run(":", 1), Run(" ", 1), Run("3", 1)>>),
      BlankPage, LongPage>>

DocPlain == <<TextPage, BlankPage>>

DocBlank == <<BlankPage>>

Documents == {DocTopics, DocQuality, DocPlain, DocBlank}

Path(dir, base) == [dir |-> dir, base |-> base]

Paths == {Path("a", "x.pdf"), Path("b", "x.pdf"), Path("a", "y.pdf")}

TrustName == Ch("Some Trust")

BoardPapersUrl == Ch("https://trust.nhs.uk/board-papers")

BigSize == CHAR_LIMIT \div BigParts

\* The key of the k-th entry of a corpus handed to analyse_with_claude
SlotKey(k) ==
    Key(IF k <= Len(Topics) + 1 THEN "x.pdf" ELSE "y.pdf",
        (<<"agenda">> \o Topics)[((k - 1) % (Len(Topics) + 1)) + 1])

\* The texts entry k can hold: empty, white space, and texts that with the
\* entry's header come to SmallSize, BigSize and BigSize + 1 characters
TextKinds == {"empty", "space", "small", "big", "over"}

SlotText(k, kind) ==
    LET h == StrLen(Header(SlotKey(k))) IN
    CASE kind = "empty" -> <<>>
      [] kind = "space" -> <<Run(" ", 3)>>
      [] kind = "small" -> <<Run("x", SmallSize - h)>>
      [] kind = "big"   -> <<Run("x", BigSize - h)>>
      [] kind = "over"  -> <<Run("x", BigSize + 1 - h)>>

Corpus(kinds) ==
    [k \in 1..Len(kinds) |-> [key |-> SlotKey(k), text |-> SlotText(k, kinds[k])]]

(***************************** initial states ******************************)

NoCall == /\ args = <<>>
          /\ ret = <<>>

NoRun == /\ fs = <<>>
         /\ pdf_paths = <<>>
         /\ idx = 0
         /\ all_sections = <<>>
         /\ combined_text = <<>>
         /\ template_exists = FALSE
         /\ prompt = <<>>
         /\ request_sent = FALSE
         /\ leads_written = FALSE

\* run() at step 4: a non-empty list of paths, some files on disk
Init ==
    /\ pc = "extract"
    /\ NoCall
    /\ fs \in [Paths -> {File(TRUE, d) : d \in Documents} \cup {Corrupt}]
    /\ pdf_paths \in SeqsUpTo(Paths, MaxDocs) \ {<<>>}
    /\ idx = 0
    /\ all_sections = <<>>
    /\ combined_text = <<>>
    /\ template_exists \in BOOLEAN
    /\ prompt = <<>>
    /\ request_sent = FALSE
    /\ leads_written = FALSE

\* a call of extract_pages
InitPages ==
    /\ pc = "call"
    /\ args \in [pdf : SeqsUpTo(PageKinds, MaxPdfLen),
                 start : 0..(MaxPdfLen + 1), end : 0..(MaxPdfLen + 2)]
    /\ ret = <<>>
    /\ NoRun

\* a call of find_section_starts
InitAgenda ==
    /\ pc = "call"
    /\ args \in [agenda_text : SeqsUpTo(AgendaAlphabet, MaxAgendaLen),
                 total_pages : AgendaTotals]
    /\ ret = <<>>
    /\ NoRun

\* a document of 0..MaxTotalPages pages in which the agenda names no section
InitThirds ==
    /\ pc = "call"
    /\ \E total \in 0..MaxTotalPages :
          args = [pdf |-> [i \in 1..total |->
                              IF i % 7 = 0 THEN BlankPage ELSE TextPage]]
    /\ ret = <<>>
    /\ NoRun

\* a call of analyse_with_claude
InitAnalyse ==
    /\ pc = "analyse"
    /\ NoCall
    /\ fs = <<>>
    /\ pdf_paths = <<>>
    /\ idx = 0
    /\ \E m \in 0..MaxEntries :
          \E kinds \in [1..m -> TextKinds] : all_sections = Corpus(kinds)
    /\ combined_text = <<>>
    /\ template_exists = TRUE
    /\ prompt = <<>>
    /\ request_sent = FALSE
    /\ leads_written = FALSE

(********************************* actions *********************************)

\* extract_pages(pdf, start, end)
CallExtractPages ==
    /\ pc = "call"
    /\ pc' = "returned"
    /\ ret' = extract_pages_run(args.pdf, args.start, args.end)
    /\ UNCHANGED <<args, pipeline_vars>>

\* find_section_starts(agenda_text, total_pages)
CallFindSectionStarts ==
    /\ pc = "call"
    /\ pc' = "returned"
    /\ ret' = find_section_starts(args.agenda_text, args.total_pages)
    /\ UNCHANGED <<args, pipeline_vars>>

\* the fallback of extract_targeted_text on one opened document
CallReadInThirds ==
    /\ pc = "call"
    /\ ~UsesSections(args.pdf)
    /\ pc' = "returned"
    /\ ret' = read_in_thirds(args.pdf)
    /\ UNCHANGED <<args, pipeline_vars>>

CurrentPath == pdf_paths[idx + 1]

AfterDoc(step) ==
    /\ all_sections' = step.d
    /\ idx' = idx + 1
    /\ pc' = IF step.stop \/ idx + 1 = Len(pdf_paths) THEN "analyse" ELSE "extract"
    /\ UNCHANGED <<call_vars, fs, pdf_paths, combined_text, template_exists,
                   prompt, request_sent, leads_written>>

\* an iteration whose document does not open: except ...: continue
SkipUnopenable ==
    /\ pc = "extract"
    /\ idx < Len(pdf_paths)
    /\ ~Opens(fs, CurrentPath)
    /\ AfterDoc(DocStep(all_sections, fs, CurrentPath))

\* an iteration that finds sections in the agenda
ExtractSections ==
    /\ pc = "extract"
    /\ idx < Len(pdf_paths)
    /\ Opens(fs, CurrentPath)
    /\ UsesSections(fs[CurrentPath].pages)
    /\ AfterDoc(DocStep(all_sections, fs, CurrentPath))

\* an iteration that reads the document in thirds
ExtractThirds ==
    /\ pc = "extract"
    /\ idx < Len(pdf_paths)
    /\ Opens(fs, CurrentPath)
    /\ ~UsesSections(fs[CurrentPath].pages)
    /\ AfterDoc(DocStep(all_sections, fs, CurrentPath))

\* analyse_with_claude up to combined_text
Assemble ==
    /\ pc = "analyse"
    /\ combined_text' = combine(all_sections)
    /\ pc' = "load_prompt"
    /\ UNCHANGED <<call_vars, fs, pdf_paths, idx, all_sections, template_exists,
                   prompt, request_sent, leads_written>>

LoadedPrompt == load_prompt(template_exists, TrustName, BoardPapersUrl, combined_text)

\* load_prompt raises; nothing in analyse_with_claude or run catches it
LoadPromptMissing ==
    /\ pc = "load_prompt"
    /\ LoadedPrompt.raised
    /\ pc' = "failed"
    /\ UNCHANGED <<call_vars, pipeline_vars>>

LoadPromptOk ==
    /\ pc = "load_prompt"
    /\ ~LoadedPrompt.raised
    /\ prompt' = LoadedPrompt.prompt
    /\ pc' = "send"
    /\ UNCHANGED <<call_vars, fs, pdf_paths, idx, all_sections, combined_text,
                   template_exists, request_sent, leads_written>>

\* client.messages.create returns a message
RequestOk ==
    /\ pc = "send"
    /\ request_sent' = TRUE
    /\ pc' = "write"
    /\ UNCHANGED <<call_vars, fs, pdf_paths, idx, all_sections, combined_text,
                   template_exists, prompt, leads_written>>

\* client.messages.create raises; the error leaves run()
RequestFails ==
    /\ pc = "send"
    /\ request_sent' = TRUE
    /\ pc' = "failed"
    /\ UNCHANGED <<call_vars, fs, pdf_paths, idx, all_sections, combined_text,
                   template_exists, prompt, leads_written>>

\* output_path.write_text(results)
WriteLeads ==
    /\ pc = "write"
    /\ leads_written' = TRUE
    /\ pc' = "done"
    /\ UNCHANGED <<call_vars, fs, pdf_paths, idx, all_sections, combined_text,
                   template_exists, prompt, request_sent>>

Next ==
    \/ SkipUnopenable
    \/ ExtractSections
    \/ ExtractThirds
    \/ Assemble
    \/ LoadPromptMissing
    \/ LoadPromptOk
    \/ RequestOk
    \/ RequestFails
    \/ WriteLeads

Spec == Init /\ [][Next]_vars

SpecPages == InitPages /\ [][CallExtractPages]_vars

SpecAgenda == InitAgenda /\ [][CallFindSectionStarts]_vars

SpecThirds == InitThirds /\ [][CallReadInThirds]_vars

SpecAnalyse == InitAnalyse /\ [][Assemble]_vars

(***************************************************************************)
(*                               the claims                                *)
(***************************************************************************)

Returned == pc = "returned"

\* The pages of the requested range that have text to show: extraction does
\* not fail and the text is not white space only.
GoodPages(pdf, start, end) ==
    {i \in 0..(Len(pdf) - 1) :
        /\ start <= i
        /\ i < end
        /\ ~pdf[i + 1].fails
        /\ NonBlank(pdf[i + 1].text)}

\* header + text of the first m entries, joined
RECURSIVE PrefixText(_, _)
PrefixText(entries, m) ==
    IF m = 0 THEN <<>>
    ELSE PrefixText(entries, m - 1) \o Header(entries[m].key) \o entries[m].text

NonBlankEntries(d) ==
    LET keep(e) == NonBlank(e.text) IN SelectSeq(d, keep)

\* C1: the combined text is never longer than the ceiling, and it is the
\* header + whole text of the first m non-blank entries in insertion order,
\* m being where the first non-blank entry that would pass the ceiling
\* stands: that entry and all later ones are absent, none is cut short.
C1_WholePrefixUnderCeiling ==
    pc = "load_prompt" =>
        LET nb == NonBlankEntries(all_sections) IN
        /\ StrLen(combined_text) <= CHAR_LIMIT
        /\ \E m \in 0..Len(nb) :
              /\ combined_text = PrefixText(nb, m)
              /\ m < Len(nb) => StrLen(PrefixText(nb, m + 1)) > CHAR_LIMIT

\* an entry went over the ceiling and a later, smaller one that would still
\* have fitted is absent too
C1_Witness ==
    /\ pc = "load_prompt"
    /\ LET nb == NonBlankEntries(all_sections) IN
       \E m \in 1..Len(nb) :
          /\ combined_text = PrefixText(nb, m)
          /\ \E j \in (m + 2)..Len(nb) :
                StrLen(PrefixText(nb, m)) + StrLen(Header(nb[j].key))
                    + StrLen(nb[j].text) <= CHAR_LIMIT

\* C2: every start page p returned stands for the 1-indexed page p + 1 with
\* 3 <= p + 1 <= total_pages, p + 1 is the number that was matched, and a
\* topic whose matched number is outside [3, total_pages] has no entry.
C2_StartsInRangeNotClamped ==
    Returned =>
        LET s == Lower(args.agenda_text)
            total == args.total_pages
        IN /\ \A k \in 1..Len(ret) :
                 /\ 2 <= ret[k].start
                 /\ ret[k].start <= total - 1
                 /\ \E p \in MatchStarts(ret[k].name, s) :
                       PageNumAt(s, p) = ret[k].start + 1
           /\ \A t \in 1..Len(Topics) :
                 LET ps == MatchStarts(Topics[t], s) IN
                 (ps # {} /\ (PageNumAt(s, MinOf(ps)) < 3
                                \/ PageNumAt(s, MinOf(ps)) > total))
                     => \A k \in 1..Len(ret) : ret[k].name # Topics[t]

\* a number above total_pages was matched, in a document of 3 pages or more,
\* and the topic has no entry
C2_Witness ==
    /\ Returned
    /\ args.total_pages >= 3
    /\ \A k \in 1..Len(ret) : ret[k].name # "quality"
    /\ LET s == Lower(args.agenda_text) IN
       /\ MatchStarts("quality", s) # {}
       /\ PageNumAt(s, MinOf(MatchStarts("quality", s))) > args.total_pages

HasTopicKey(d, label) ==
    \E k \in 1..Len(d) :
        /\ d[k].key.label = label
        /\ \E t \in 1..Len(Topics) : d[k].key.section = Topics[t]

HasPartKey(d, label) ==
    \E k \in 1..Len(d) :
        /\ d[k].key.label = label
        /\ d[k].key.section \in {"part_1", "part_2", "part_3"}

\* C3: for each document label the corpus holds topic keys or positional
\* keys, never both.
C3_ExclusivePerLabel ==
    \A path \in Paths :
        ~(HasTopicKey(all_sections, Basename(path))
            /\ HasPartKey(all_sections, Basename(path)))

\* C4: in the fallback the pages read for part_1, part_2 and part_3 are
\* pairwise disjoint and together are all the pages 0..total_pages-1.
C4_ThirdsPartition ==
    Returned =>
        LET total == Len(args.pdf)
            A(k) == ret[k].run.accessed
        IN /\ Len(ret) = 3
           /\ ret[1].section = "part_1"
           /\ ret[2].section = "part_2"
           /\ ret[3].section = "part_3"
           /\ A(1) \cap A(2) = {}
           /\ A(1) \cap A(3) = {}
           /\ A(2) \cap A(3) = {}
           /\ A(1) \cup A(2) \cup A(3) = 0..(total - 1)

\* a document whose page count is above 3 * 20 and no multiple of 3: all
\* three parts are read and the third takes the remainder
C4_Witness ==
    /\ Returned
    /\ Len(args.pdf) > Thirds * MinChunk
    /\ Len(args.pdf) % Thirds # 0
    /\ \A k \in 1..3 : ret[k].run.accessed # {}

\* C5: extract_pages reads only pages with index in [start, min(end,
\* total_pages)); an end beyond the document gives what end = total_pages
\* gives, a start at or beyond it gives the empty string, and no error is
\* raised.
C5_ClampedToDocument ==
    Returned =>
        LET total == Len(args.pdf) IN
        /\ ret.accessed \subseteq
               {i \in 0..(total - 1) : args.start <= i /\ i < args.end}
        /\ ~ret.raised
        /\ args.end > total => ret.text = extract_pages(args.pdf, args.start, total)
        /\ args.start >= total => ret.text = <<>>

\* an end beyond the last page, with pages of the document in the range
C5_Witness ==
    /\ Returned
    /\ args.end > Len(args.pdf)
    /\ args.start < Len(args.pdf)
    /\ ret.text # <<>>
    /\ ret.accessed = args.start..(Len(args.pdf) - 1)

\* What C6 asks of one iteration of the loop over pdf_paths
C6_Step ==
    (pc = "extract") =>
        /\ idx' = idx + 1
        /\ pc' # "extract" => idx' = Len(pdf_paths)
        /\ ~Opens(fs, CurrentPath) => all_sections' = all_sections
        /\ Opens(fs, CurrentPath) =>
              \E k \in 1..Len(all_sections') :
                 /\ all_sections'[k].key = Key(Basename(CurrentPath), "agenda")
                 /\ all_sections'[k].text = AgendaOf(fs[CurrentPath].pages)

\* C6: a document that does not open adds no key and does not stop the
\* loop, every document is processed, and every document that opens leaves
\* its <label>__agenda entry.
C6_SkipAndContinue == [][C6_Step]_vars

\* a document that did not open came before one that opened with a blank
\* agenda and no topic, whose agenda entry is in the corpus
C6_Witness ==
    /\ pc = "analyse"
    /\ Len(pdf_paths) = 2
    /\ ~Opens(fs, pdf_paths[1])
    /\ Opens(fs, pdf_paths[2])
    /\ ~NonBlank(AgendaOf(fs[pdf_paths[2]].pages))
    /\ ~UsesSections(fs[pdf_paths[2]].pages)
    /\ \E k \in 1..Len(all_sections) :
          all_sections[k].key = Key(Basename(pdf_paths[2]), "agenda")

\* The number of assignments to all_sections the iteration at hand makes
WritesOfStep ==
    IF Opens(fs, CurrentPath)
    THEN Len(DocWrites(Basename(CurrentPath), fs[CurrentPath].pages))
    ELSE 0

\* What C7 asks of one iteration of the loop over pdf_paths
C7_Step ==
    (pc = "extract") =>
        /\ Len(all_sections') = Len(all_sections) + WritesOfStep
        /\ SubSeq(all_sections', 1, Len(all_sections)) = all_sections

\* C7: the corpus is append-only: every write of an iteration adds a new
\* key, and no entry already there changes its text or its place.
C7_AppendOnly == [][C7_Step]_vars

\* C8: with the template file missing the run fails at load_prompt: no
\* request is sent and no leads file is written.
C8_MissingTemplateAborts ==
    ~template_exists =>
        /\ ~request_sent
        /\ ~leads_written
        /\ pc \in {"extract", "analyse", "load_prompt", "failed"}

\* the run has failed on the missing template after extracting something
C8_Witness ==
    /\ pc = "failed"
    /\ ~template_exists
    /\ combined_text # <<>>

\* The page a part of the output was made from
PartPage(pdf, part) ==
    CHOOSE i \in 0..(Len(pdf) - 1) : part = PagePart(i, pdf[i + 1].text)

\* C9: a page whose extraction fails is the only thing dropped: no error
\* reaches the caller and every other page of the range with non-blank text
\* is in the output once, in ascending order, under its 1-indexed marker.
C9_FailedPageAloneDropped ==
    Returned =>
        LET pdf == args.pdf
            good == GoodPages(pdf, args.start, args.end)
        IN /\ ~ret.raised
           /\ Len(ret.parts) = Cardinality(good)
           /\ \A i \in good :
                 \E k \in 1..Len(ret.parts) :
                    /\ ret.parts[k] = PagePart(i, pdf[i + 1].text)
                    /\ SubSeq(ret.parts[k], 1, 4 + Len(Decimal(i + 1)))
                         = <<Run("-", 2), Run(" ", 1), Run("Page", 1), Run(" ", 1)>>
                               \o Decimal(i + 1)
           /\ \A k1, k2 \in 1..Len(ret.parts) :
                 k1 < k2 => PartPage(pdf, ret.parts[k1]) < PartPage(pdf, ret.parts[k2])
           /\ ret.text = Join(Ch(NL), ret.parts)

\* a page of the range fails between two pages that have text: both are in
\* the output
C9_Witness ==
    /\ Returned
    /\ \E i, j, k \in args.start..(Min(args.end, Len(args.pdf)) - 1) :
          /\ i < j
          /\ j < k
          /\ args.pdf[j + 1].fails
          /\ {i, k} \subseteq GoodPages(args.pdf, args.start, args.end)
    /\ Len(ret.parts) >= 2

\* C10: only the first match of a topic's pattern counts: a topic has at
\* most one entry, an entry is the number of the first match, and a first
\* match outside [3, total_pages] leaves the topic absent whatever later
\* occurrences of the keyword say.
C10_FirstMatchOnly ==
    Returned =>
        LET s == Lower(args.agenda_text)
            total == args.total_pages
        IN /\ \A k1, k2 \in 1..Len(ret) :
                 ret[k1].name = ret[k2].name => k1 = k2
           /\ \A k \in 1..Len(ret) :
                 ret[k].start + 1 = PageNumAt(s, MinOf(MatchStarts(ret[k].name, s)))
           /\ \A t \in 1..Len(Topics) :
                 LET ps == MatchStarts(Topics[t], s) IN
                 (ps # {} /\ ~(3 <= PageNumAt(s, MinOf(ps))
                               /\ PageNumAt(s, MinOf(ps)) <= total))
                     => \A k \in 1..Len(ret) : ret[k].name # Topics[t]

\* the first match of quality is out of range, a later occurrence of the
\* keyword has an in-range number, and quality is absent
C10_Witness ==
    /\ Returned
    /\ LET s == Lower(args.agenda_text)
           ps == MatchStarts("quality", s)
       IN /\ Cardinality(ps) >= 2
          /\ PageNumAt(s, MinOf(ps)) < 3
          /\ \E p \in ps : /\ PageNumAt(s, p) >= 3
                           /\ PageNumAt(s, p) <= args.total_pages
    /\ \A k \in 1..Len(ret) : ret[k].name # "quality"

====
